---- MODULE Spec2Model ----
(***************************************************************************)
(* ChainDataAnchoring transaction of caver-js                              *)
(* (packages/caver-transaction/src/transactionTypes/chainDataAnchoring).   *)
(*                                                                         *)
(* JavaScript strings are sequences of one-character strings, so that      *)
(* "0x48" is <<"0","x","4","8">>.  An optional value is <<>> (undefined)   *)
(* or <<v>> (defined).  Byte strings handed to the RLP codec are hex       *)
(* strings; the codec works on their bytes.                                *)
(***************************************************************************)
EXTENDS Integers, Sequences, FiniteSets, TLC

VARIABLES tx, fill, last, encoded

vars == <<tx, fill, last, encoded>>

----------------------------------------------------------------------------
(* Strings *)

Undefined == <<>>

Def(v) == <<v>>

IsDef(o) == o # Undefined

Val(o) == o[1]

HexDigits == <<"0","1","2","3","4","5","6","7","8","9","a","b","c","d","e","f">>

UpperDigits == <<"A","B","C","D","E","F">>

IsLowerHexChar(c) == \E i \in 1..Len(HexDigits) : HexDigits[i] = c

IsUpperHexChar(c) == \E i \in 1..Len(UpperDigits) : UpperDigits[i] = c

LowerChar(c) ==
  IF IsUpperHexChar(c)
    THEN HexDigits[10 + (CHOOSE i \in 1..Len(UpperDigits) : UpperDigits[i] = c)]
    ELSE c

toLowerCase(s) == [i \in 1..Len(s) |-> LowerChar(s[i])]

DigitVal(c) == (CHOOSE i \in 1..Len(HexDigits) : HexDigits[i] = LowerChar(c)) - 1

HexPrefix == <<"0","x">>

startsWith(s, p) == Len(s) >= Len(p) /\ SubSeq(s, 1, Len(p)) = p

slice(s, k) == SubSeq(s, k + 1, Len(s))

(* utils.addHexPrefix *)
addHexPrefix(s) == IF startsWith(s, HexPrefix) THEN s ELSE HexPrefix \o s

(* utils.isHex: an optional 0x prefix followed by hex digits only *)
isHex(s) ==
  LET body == IF startsWith(s, HexPrefix) THEN slice(s, 2) ELSE s
  IN \A i \in 1..Len(body) : IsLowerHexChar(body[i]) \/ IsUpperHexChar(body[i])

(* utils.toHex on a 0x-prefixed hex string returns it unchanged *)
toHex(s) == s

RECURSIVE StripZeros(_)
StripZeros(d) == IF d # <<>> /\ d[1] = "0" THEN StripZeros(Tail(d)) ELSE d

(* utils.trimLeadingZero: while (hex && hex.startsWith('0x0')) drop one 0 *)
trimLeadingZero(o) ==
  IF ~IsDef(o) THEN o
  ELSE IF startsWith(Val(o), HexPrefix)
    THEN Def(HexPrefix \o StripZeros(slice(Val(o), 2)))
    ELSE o

(* utils.numberToHex of a hex string: the minimal hex of its value, 0x0 for zero *)
numberToHex(s) ==
  LET d == StripZeros(toLowerCase(slice(s, 2)))
  IN HexPrefix \o (IF d = <<>> THEN <<"0">> ELSE d)

(* eth-lib Bytes.fromNat: "0x0" -> "0x", odd digit count -> pad one 0 *)
fromNat(bn) ==
  IF bn = <<"0","x","0">> THEN HexPrefix
  ELSE IF Len(bn) % 2 = 0 THEN bn
  ELSE <<"0","x","0">> \o slice(bn, 2)

----------------------------------------------------------------------------
(* RLP codec (eth-lib/lib/rlp), Ethereum semantics.  A tree is            *)
(* [str |-> hex string] or [list |-> sequence of trees].                  *)

Str(h) == [str |-> h]

List(l) == [list |-> l]

IsStr(t) == DOMAIN t = {"str"}

IsList(t) == DOMAIN t = {"list"}

(* bytes of a whole-byte 0x hex string *)
HexToBytes(h) ==
  LET d == slice(h, 2)
  IN [i \in 1..(Len(d) \div 2) |-> 16 * DigitVal(d[2*i - 1]) + DigitVal(d[2*i])]

RECURSIVE BytesToDigits(_)
BytesToDigits(b) ==
  IF b = <<>> THEN <<>>
  ELSE <<HexDigits[(b[1] \div 16) + 1], HexDigits[(b[1] % 16) + 1]>> \o BytesToDigits(Tail(b))

BytesToHex(b) == HexPrefix \o BytesToDigits(b)

RECURSIVE BigEndian(_)
BigEndian(n) == IF n = 0 THEN <<>> ELSE BigEndian(n \div 256) \o <<n % 256>>

RlpLength(len, add) ==
  IF len < 56 THEN <<add + len>>
  ELSE <<add + 55 + Len(BigEndian(len))>> \o BigEndian(len)

RECURSIVE RlpEncodeBytes(_)
RECURSIVE RlpEncodeItems(_)
RlpEncodeBytes(t) ==
  IF IsStr(t)
    THEN LET b == HexToBytes(t.str)
         IN IF Len(b) = 1 /\ b[1] < 128 THEN b ELSE RlpLength(Len(b), 128) \o b
    ELSE LET body == RlpEncodeItems(t.list)
         IN RlpLength(Len(body), 192) \o body

RlpEncodeItems(l) ==
  IF l = <<>> THEN <<>> ELSE RlpEncodeBytes(l[1]) \o RlpEncodeItems(Tail(l))

(* RLP.encode *)
RlpEncode(t) == BytesToHex(RlpEncodeBytes(t))

RECURSIVE BigEndianVal(_)
BigEndianVal(b) ==
  IF b = <<>> THEN 0 ELSE 256 * BigEndianVal(SubSeq(b, 1, Len(b) - 1)) + b[Len(b)]

RlpFail == [ok |-> FALSE, tree |-> Str(HexPrefix), next |-> 0]

(* parseLength: the payload length and the index where the payload starts *)
ParseLength(b, i, base) ==
  LET l == b[i] - base
  IN IF l < 56 THEN [ok |-> TRUE, len |-> l, start |-> i + 1]
     ELSE IF i + (l - 55) > Len(b) THEN [ok |-> FALSE, len |-> 0, start |-> 0]
     ELSE [ok |-> TRUE, len |-> BigEndianVal(SubSeq(b, i + 1, i + (l - 55))),
           start |-> i + (l - 55) + 1]

RECURSIVE ParseTree(_, _)
RECURSIVE ParseItems(_, _, _)
ParseTree(b, i) ==
  IF i > Len(b) THEN RlpFail
  ELSE IF b[i] < 128 THEN [ok |-> TRUE, tree |-> Str(BytesToHex(<<b[i]>>)), next |-> i + 1]
  ELSE IF b[i] < 192
    THEN LET hd == ParseLength(b, i, 128)
         IN IF ~hd.ok \/ hd.start + hd.len - 1 > Len(b) THEN RlpFail
            ELSE [ok |-> TRUE,
                  tree |-> Str(BytesToHex(SubSeq(b, hd.start, hd.start + hd.len - 1))),
                  next |-> hd.start + hd.len]
    ELSE LET hd == ParseLength(b, i, 192)
         IN IF ~hd.ok \/ hd.start + hd.len - 1 > Len(b) THEN RlpFail
            ELSE LET items == ParseItems(b, hd.start, hd.start + hd.len)
                 IN IF ~items.ok THEN RlpFail
                    ELSE [ok |-> TRUE, tree |-> List(items.list), next |-> hd.start + hd.len]

ParseItems(b, i, lim) ==
  IF i = lim THEN [ok |-> TRUE, list |-> <<>>]
  ELSE LET r == ParseTree(b, i)
       IN IF ~r.ok \/ r.next > lim THEN [ok |-> FALSE, list |-> <<>>]
          ELSE LET rest == ParseItems(b, r.next, lim)
               IN [ok |-> rest.ok, list |-> <<r.tree>> \o rest.list]

(* RLP.decode: the tree of a hex string, or a failure on input that is no RLP *)
RlpDecode(h) ==
  IF ~isHex(h) \/ Len(h) % 2 # 0 THEN [ok |-> FALSE, tree |-> Str(HexPrefix)]
  ELSE LET r == ParseTree(HexToBytes(toLowerCase(h)), 1)
       IN [ok |-> r.ok, tree |-> r.tree]

----------------------------------------------------------------------------
(* Transaction objects *)

(* TX_TYPE_TAG.TxTypeChainDataAnchoring *)
TxTypeChainDataAnchoringTag == <<"0","x","4","8">>

(* A parameter object: every property is optional. *)
NoCreateTxObj ==
  [from |-> Undefined, nonce |-> Undefined, gas |-> Undefined, gasPrice |-> Undefined,
   chainId |-> Undefined, input |-> Undefined, data |-> Undefined, signatures |-> Undefined]

(* The fields of a transaction before any setter has run. *)
NoFields ==
  [from |-> Undefined, nonce |-> Undefined, gas |-> Undefined, gasPrice |-> Undefined,
   chainId |-> Undefined, input |-> HexPrefix, signatures |-> <<>>]

(* JavaScript truthiness of an optional string: undefined and "" are falsy *)
Truthy(o) == IsDef(o) /\ Val(o) # <<>>

(* transactionHelper.isNot: undefined or null *)
isNot(o) == ~IsDef(o)

IsHexStrict(s) == startsWith(s, HexPrefix) /\ isHex(s)

Thrown(t, e) == [ok |-> FALSE, err |-> e, tx |-> t]

Done(t) == [ok |-> TRUE, err |-> "", tx |-> t]

(* SignatureData.encode: [v, r, s] *)
SigEncode(sig) == List(<<Str(sig[1]), Str(sig[2]), Str(sig[3])>>)

IsSigTree(t) ==
  /\ IsList(t)
  /\ Len(t.list) = 3
  /\ \A k \in 1..3 : IsStr(t.list[k])

SigDecode(t) == <<t.list[1].str, t.list[2].str, t.list[3].str>>

Nth(l, k) == IF k <= Len(l) THEN Def(l[k]) ELSE Undefined

StrField(l, k) == IF k <= Len(l) THEN Def(l[k].str) ELSE Undefined

(* const [nonce, gasPrice, gas, from, input, signatures] = RLP.decode(...)    *)
(* eth-lib returns [] for input it cannot parse, so every field is undefined. *)
(* Items of the wrong shape make the helpers throw.                           *)
_decode_fields(l) ==
  IF \/ \E k \in 1..5 : k <= Len(l) /\ ~IsStr(l[k])
     \/ Len(l) >= 6 /\ ~(IsList(l[6]) /\ \A j \in 1..Len(l[6].list) : IsSigTree(l[6].list[j]))
  THEN [ok |-> FALSE, err |-> "TypeError", obj |-> NoCreateTxObj]
  ELSE [ok |-> TRUE, err |-> "",
        obj |-> [NoCreateTxObj EXCEPT
                   !.nonce = trimLeadingZero(StrField(l, 1)),
                   !.gasPrice = trimLeadingZero(StrField(l, 2)),
                   !.gas = trimLeadingZero(StrField(l, 3)),
                   !.from = StrField(l, 4),
                   !.input = StrField(l, 5),
                   !.signatures =
                     IF Len(l) >= 6
                       THEN Def([j \in 1..Len(l[6].list) |-> SigDecode(l[6].list[j])])
                       ELSE Undefined]]

_decode_swapped(rlpEncoded) ==
  LET r == addHexPrefix(rlpEncoded)
  IN IF ~startsWith(r, TxTypeChainDataAnchoringTag)
       THEN [ok |-> FALSE, err |-> "prefix", obj |-> NoCreateTxObj]
       ELSE LET d == RlpDecode(HexPrefix \o slice(r, 4))
                f == IF ~d.ok THEN _decode_fields(<<>>)
                     ELSE IF IsStr(d.tree)
                       THEN [ok |-> FALSE, err |-> "TypeError", obj |-> NoCreateTxObj]
                     ELSE _decode_fields(d.tree.list)
            IN [f EXCEPT !.obj.gas = f.obj.gasPrice, !.obj.gasPrice = f.obj.gas]

_decode_untagged(rlpEncoded) ==
  LET r == addHexPrefix(rlpEncoded)
      d == RlpDecode(HexPrefix \o slice(r, 4))
  IN IF ~d.ok THEN _decode_fields(<<>>)
     ELSE IF IsStr(d.tree)
       THEN [ok |-> FALSE, err |-> "TypeError", obj |-> NoCreateTxObj]
     ELSE _decode_fields(d.tree.list)

(* function _decode(rlpEncoded) *)
_decode(rlpEncoded) ==
  LET r == addHexPrefix(rlpEncoded)
  IN IF ~startsWith(r, TxTypeChainDataAnchoringTag)
       THEN [ok |-> FALSE, err |-> "prefix", obj |-> NoCreateTxObj]
       ELSE LET typeDettached == HexPrefix \o slice(r, 4)
                d == RlpDecode(typeDettached)
            IN IF ~d.ok THEN _decode_fields(<<>>)
               ELSE IF IsStr(d.tree)
                 THEN [ok |-> FALSE, err |-> "TypeError", obj |-> NoCreateTxObj]
               ELSE _decode_fields(d.tree.list)

(* AbstractTransaction constructor: assigns the common fields through their *)
(* setters, which reject invalid hex at the assignment.                      *)
AbstractTransaction_constructor(o) ==
  IF \E f \in {"from", "nonce", "gas", "chainId"} : IsDef(o[f]) /\ ~IsHexStrict(Val(o[f]))
    THEN Thrown(NoFields, "InvalidFieldFormat")
    ELSE Done([NoFields EXCEPT
                 !.from = IF IsDef(o.from) THEN Def(toLowerCase(Val(o.from))) ELSE Undefined,
                 !.nonce = IF IsDef(o.nonce) THEN Def(numberToHex(Val(o.nonce))) ELSE Undefined,
                 !.gas = IF IsDef(o.gas) THEN Def(numberToHex(Val(o.gas))) ELSE Undefined,
                 !.chainId = IF IsDef(o.chainId) THEN Def(numberToHex(Val(o.chainId))) ELSE Undefined,
                 !.signatures = IF IsDef(o.signatures) THEN Val(o.signatures) ELSE <<>>])

(* set gasPrice(g) *)
gasPrice_set(t, g) ==
  IF ~IsDef(g) THEN Done([t EXCEPT !.gasPrice = Undefined])
  ELSE IF ~IsHexStrict(Val(g)) THEN Thrown(t, "InvalidFieldFormat")
  ELSE Done([t EXCEPT !.gasPrice = Def(numberToHex(Val(g)))])

input_set_unchecked(t, input) ==
  Done([t EXCEPT !.input = IF IsDef(input) THEN toHex(Val(input)) ELSE HexPrefix])

(* set input(input) *)
input_set(t, input) ==
  IF ~Truthy(input) \/ ~isHex(Val(input))
    THEN Thrown(t, "Invalid input data")
    ELSE Done([t EXCEPT !.input = toHex(Val(input))])

(* constructor(createTxObj, klaytnCall) for an object argument *)
constructor(createTxObj) ==
  LET base == AbstractTransaction_constructor(createTxObj)
  IN IF ~base.ok THEN base
     ELSE IF Truthy(createTxObj.input) /\ Truthy(createTxObj.data)
       THEN Thrown(NoFields, "input and data")
     ELSE LET i == input_set(base.tx,
                             IF Truthy(createTxObj.input) THEN createTxObj.input
                             ELSE createTxObj.data)
          IN IF ~i.ok THEN Thrown(NoFields, i.err)
             ELSE IF IsDef(createTxObj.gasPrice)
               THEN LET g == gasPrice_set(i.tx, createTxObj.gasPrice)
                    IN IF g.ok THEN g ELSE Thrown(NoFields, g.err)
             ELSE i

(* constructor for a string argument, and static decode(rlpEncoded) *)
decode(rlpEncoded) ==
  LET d == _decode(rlpEncoded)
  IN IF ~d.ok THEN Thrown(NoFields, d.err) ELSE constructor(d.obj)

----------------------------------------------------------------------------
(* Encoding *)

Encoded(h) == [ok |-> TRUE, err |-> "", out |-> h]

EncodeThrown(e) == [ok |-> FALSE, err |-> e, out |-> <<>>]

(* AbstractTransaction.validateOptionalValues: names the first unset field *)
AbstractTransaction_validateOptionalValues(t) ==
  IF ~IsDef(t.nonce) THEN "nonce is undefined"
  ELSE IF ~IsDef(t.gas) THEN "gas is undefined"
  ELSE IF ~IsDef(t.gasPrice) THEN "gasPrice is undefined"
  ELSE IF ~IsDef(t.chainId) THEN "chainId is undefined"
  ELSE ""

validateOptionalValues_noSuper(t) ==
  IF ~IsDef(t.gasPrice) THEN "gasPrice is undefined" ELSE ""

(* validateOptionalValues(): "" when nothing is thrown *)
validateOptionalValues(t) ==
  LET e == AbstractTransaction_validateOptionalValues(t)
  IN IF e # "" THEN e
     ELSE IF ~IsDef(t.gasPrice) THEN "gasPrice is undefined"
     ELSE ""

(* Bytes.fromNat(undefined) and undefined.toLowerCase() throw a TypeError *)
PayloadReadable(t) ==
  IsDef(t.nonce) /\ IsDef(t.gasPrice) /\ IsDef(t.gas) /\ IsDef(t.from)

PayloadItems(t) ==
  <<Str(fromNat(Val(t.nonce))), Str(fromNat(Val(t.gasPrice))), Str(fromNat(Val(t.gas))),
    Str(toLowerCase(Val(t.from))), Str(t.input)>>

getRLPEncoding_frozen(t) ==
  LET e == validateOptionalValues(t)
      sigs == IF IsDef(encoded) THEN Val(encoded) ELSE t.signatures
  IN IF e # "" THEN EncodeThrown(e)
     ELSE IF ~PayloadReadable(t) THEN EncodeThrown("TypeError")
     ELSE Encoded(TxTypeChainDataAnchoringTag \o
            slice(RlpEncode(List(PayloadItems(t) \o
                    <<List([j \in 1..Len(sigs) |-> SigEncode(sigs[j])])>>)), 2))

getRLPEncoding_needsSignature(t) ==
  LET e == validateOptionalValues(t)
  IN IF e # "" THEN EncodeThrown(e)
     ELSE IF ~PayloadReadable(t) THEN EncodeThrown("TypeError")
     ELSE IF t.signatures = <<>> THEN EncodeThrown("signatures is empty")
     ELSE Encoded(TxTypeChainDataAnchoringTag \o
            slice(RlpEncode(List(PayloadItems(t) \o
                    <<List([j \in 1..Len(t.signatures) |-> SigEncode(t.signatures[j])])>>)), 2))

(* getRLPEncoding() *)
getRLPEncoding(t) ==
  LET e == validateOptionalValues(t)
  IN IF e # "" THEN EncodeThrown(e)
     ELSE IF ~PayloadReadable(t) THEN EncodeThrown("TypeError")
     ELSE LET signatures == [j \in 1..Len(t.signatures) |-> SigEncode(t.signatures[j])]
          IN Encoded(TxTypeChainDataAnchoringTag \o
                     slice(RlpEncode(List(PayloadItems(t) \o <<List(signatures)>>)), 2))

getCommonRLPEncodingForSignature_noTag(t) ==
  LET e == validateOptionalValues(t)
  IN IF e # "" THEN EncodeThrown(e)
     ELSE IF ~PayloadReadable(t) THEN EncodeThrown("TypeError")
     ELSE Encoded(RlpEncode(List(PayloadItems(t))))

(* getCommonRLPEncodingForSignature() *)
getCommonRLPEncodingForSignature(t) ==
  LET e == validateOptionalValues(t)
  IN IF e # "" THEN EncodeThrown(e)
     ELSE IF ~PayloadReadable(t) THEN EncodeThrown("TypeError")
     ELSE Encoded(RlpEncode(List(<<Str(TxTypeChainDataAnchoringTag)>> \o PayloadItems(t))))

----------------------------------------------------------------------------
(* fillTransaction: the three entries of Promise.all, then the assignments *)

FillFields == {"chainId", "gasPrice", "nonce"}

IdleFill ==
  [st |-> "idle",
   slots |-> [f \in FillFields |-> Undefined],
   before |-> [f \in FillFields |-> Undefined],
   waiting |-> {}, rejected |-> {}, queried |-> {}]

fillTransaction_queries_all(t) == FillFields

(* the fields for which the RPC collaborator is asked *)
fillTransaction_queries(t) == {f \in FillFields : isNot(t[f])}

(* const [...] = await Promise.all([...]): entries are evaluated at the call *)
fillTransaction_call(t) ==
  LET q == fillTransaction_queries(t)
  IN [st |-> "pending",
      slots |-> [f \in FillFields |-> IF f \in q THEN Undefined ELSE t[f]],
      before |-> [f \in FillFields |-> t[f]],
      waiting |-> q, rejected |-> {}, queried |-> q]

(* setters of chainId and nonce in AbstractTransaction *)
number_set(t, f, v) == [t EXCEPT ![f] = IF IsDef(v) THEN Def(numberToHex(Val(v))) ELSE Undefined]

fillTransaction_resume_partial(t, f) ==
  LET c == IF IsDef(f.slots["chainId"]) THEN number_set(t, "chainId", f.slots["chainId"]) ELSE t
      g == IF IsDef(f.slots["gasPrice"]) THEN gasPrice_set(c, f.slots["gasPrice"]).tx ELSE c
      n == IF IsDef(f.slots["nonce"]) THEN number_set(g, "nonce", f.slots["nonce"]) ELSE g
  IN IF f.rejected # {} THEN Thrown(n, "rpc rejected") ELSE Done(n)

(* the code after the await: a rejection of Promise.all skips the assignments *)
fillTransaction_resume(t, f) ==
  IF f.rejected # {} THEN Thrown(t, "rpc rejected")
  ELSE LET c == number_set(t, "chainId", f.slots["chainId"])
           g == gasPrice_set(c, f.slots["gasPrice"]).tx
           n == number_set(g, "nonce", f.slots["nonce"])
       IN Done(n)

----------------------------------------------------------------------------
(* Inputs *)

MaxSigs == 2

Hx(d) == HexPrefix \o d

Sig1 == <<Hx(<<"0","f","e","9">>), Hx(<<"1","1">>), Hx(<<"8","0">>)>>

Sig2 == <<Hx(<<"0","f","e","a">>), Hx(<<"9","0">>), Hx(<<"2","2">>)>>

SigSet == {Sig1, Sig2}

FromIn == {Def(Hx(<<"A","b">>))}

NonceIn == {Undefined, Def(Hx(<<"0","a">>))}

GasIn == {Undefined, Def(Hx(<<"8","0">>))}

GasPriceIn == {Undefined, Def(Hx(<<"0","1","9">>))}

ChainIdIn == {Undefined, Def(Hx(<<"1">>))}

InputIn == {Undefined, Def(<<>>), Def(Hx(<<"g","1">>)), Def(Hx(<<"0","1">>))}

DataIn == {Undefined, Def(<<>>), Def(Hx(<<"a","b","c","d">>))}

SignaturesIn == {Undefined, Def(<<Sig1>>)}

CreateTxObjs ==
  {[from |-> f, nonce |-> n, gas |-> g, gasPrice |-> p, chainId |-> c,
    input |-> i, data |-> d, signatures |-> s] :
     f \in FromIn, n \in NonceIn, g \in GasIn, p \in GasPriceIn, c \in ChainIdIn,
     i \in InputIn, d \in DataIn, s \in SignaturesIn}

SetInputIn == {Def(<<>>), Def(Hx(<<"g","1">>)), Def(Hx(<<"0","1">>)), Def(Hx(<<"a","b","c","d">>))}

SetGasPriceIn == {Def(Hx(<<"0">>)), Def(Hx(<<"0","1","9">>))}

RpcValues == {Hx(<<"0">>), Hx(<<"2">>)}

(* a well-formed raw transaction, for construction from a string *)
SampleRaw ==
  getRLPEncoding([NoFields EXCEPT
                    !.from = Def(Hx(<<"a","b">>)), !.nonce = Def(Hx(<<"a">>)),
                    !.gas = Def(Hx(<<"8","0">>)), !.gasPrice = Def(Hx(<<"1","9">>)),
                    !.chainId = Def(Hx(<<"1">>)), !.input = Hx(<<"0","1">>),
                    !.signatures = <<Sig1>>]).out

WithTag(raw, tag) == tag \o slice(addHexPrefix(raw), 4)

(* the strings handed to decode: a raw transaction, unprefixed, under another *)
(* variant's tag, cut short, and without any payload                          *)
RawVariants(raw) ==
  {raw, slice(raw, 2), WithTag(raw, Hx(<<"0","8">>)), WithTag(raw, Hx(<<"4","9">>)),
   SubSeq(raw, 1, Len(raw) - 2), WithTag(SubSeq(raw, 1, Len(raw) - 2), Hx(<<"1","0">>)),
   TxTypeChainDataAnchoringTag, HexPrefix}

----------------------------------------------------------------------------
(* State machine *)

NoResult ==
  [op |-> "none", ok |-> TRUE, err |-> "", out |-> <<>>, obj |-> Undefined,
   arg |-> NoCreateTxObj, raw |-> <<>>, val |-> Undefined,
   queried |-> {}, resolved |-> {}, rejected |-> {}]

Result(op, ok, err) == [NoResult EXCEPT !.op = op, !.ok = ok, !.err = err]

Init ==
  /\ tx = Undefined
  /\ fill = IdleFill
  /\ last = NoResult
  /\ encoded = Undefined

Idle == IsDef(tx) /\ fill.st = "idle"

(* new ChainDataAnchoring(createTxObj) *)
Construct(o) ==
  /\ tx = Undefined
  /\ LET r == constructor(o)
     IN /\ tx' = IF r.ok THEN Def(r.tx) ELSE Undefined
        /\ last' = [Result("constructor", r.ok, r.err) EXCEPT !.arg = o]
  /\ UNCHANGED <<fill, encoded>>

(* new ChainDataAnchoring(rlpEncoded) *)
ConstructFromString(raw) ==
  /\ tx = Undefined
  /\ LET r == decode(raw)
     IN /\ tx' = IF r.ok THEN Def(r.tx) ELSE Undefined
        /\ last' = [Result("constructor from string", r.ok, r.err) EXCEPT !.raw = raw]
  /\ UNCHANGED <<fill, encoded>>

(* ChainDataAnchoring.decode(rlpEncoded) of a string derived from the last encoding *)
Decode(raw) ==
  /\ Idle
  /\ LET r == decode(raw)
     IN last' = [Result("decode", r.ok, r.err) EXCEPT
                   !.raw = raw, !.obj = IF r.ok THEN Def(r.tx) ELSE Undefined]
  /\ UNCHANGED <<tx, fill, encoded>>

(* tx.gasPrice = g, also while fillTransaction is suspended *)
SetGasPrice(g) ==
  /\ IsDef(tx)
  /\ LET r == gasPrice_set(Val(tx), g)
     IN /\ tx' = Def(r.tx)
        /\ last' = [Result("set gasPrice", r.ok, r.err) EXCEPT !.val = g]
  /\ UNCHANGED <<fill, encoded>>

(* tx.input = v *)
SetInput(v) ==
  /\ Idle
  /\ LET r == input_set(Val(tx), v)
     IN /\ tx' = Def(r.tx)
        /\ last' = [Result("set input", r.ok, r.err) EXCEPT !.val = v]
  /\ UNCHANGED <<fill, encoded>>

(* AbstractTransaction.appendSignatures(sig) *)
AppendSignatures(sig) ==
  /\ Idle
  /\ Len(Val(tx).signatures) < MaxSigs
  /\ tx' = Def([Val(tx) EXCEPT !.signatures = Append(@, sig)])
  /\ last' = Result("appendSignatures", TRUE, "")
  /\ UNCHANGED <<fill, encoded>>

GetRLPEncoding ==
  /\ Idle
  /\ LET r == getRLPEncoding(Val(tx))
     IN /\ last' = [Result("getRLPEncoding", r.ok, r.err) EXCEPT !.out = r.out]
        /\ encoded' = IF r.ok /\ ~IsDef(encoded) THEN Def(Val(tx).signatures) ELSE encoded
  /\ UNCHANGED <<tx, fill>>

GetCommonRLPEncodingForSignature ==
  /\ Idle
  /\ LET r == getCommonRLPEncodingForSignature(Val(tx))
     IN last' = [Result("getCommonRLPEncodingForSignature", r.ok, r.err) EXCEPT !.out = r.out]
  /\ UNCHANGED <<tx, fill, encoded>>

(* fillTransaction() up to its await *)
FillTransaction ==
  /\ Idle
  /\ fill' = fillTransaction_call(Val(tx))
  /\ last' = Result("fillTransaction called", TRUE, "")
  /\ UNCHANGED <<tx, encoded>>

(* the RPC collaborator answers one pending call *)
RpcResolve(f, v) ==
  /\ fill.st = "pending"
  /\ f \in fill.waiting
  /\ fill' = [fill EXCEPT !.waiting = @ \ {f}, !.slots[f] = Def(v)]
  /\ last' = Result("rpc resolved", TRUE, "")
  /\ UNCHANGED <<tx, encoded>>

(* the RPC collaborator fails one pending call *)
RpcReject(f) ==
  /\ fill.st = "pending"
  /\ f \in fill.waiting
  /\ fill' = [fill EXCEPT !.waiting = @ \ {f}, !.rejected = @ \cup {f}]
  /\ last' = Result("rpc rejected", TRUE, "")
  /\ UNCHANGED <<tx, encoded>>

(* Promise.all settles and fillTransaction runs to its end *)
FillResume ==
  /\ fill.st = "pending"
  /\ fill.rejected # {} \/ fill.waiting = {}
  /\ LET r == fillTransaction_resume(Val(tx), fill)
     IN /\ tx' = Def(r.tx)
        /\ last' = [Result("fillTransaction", r.ok, r.err) EXCEPT
                      !.queried = fill.queried,
                      !.resolved = {f \in fill.queried : IsDef(fill.slots[f])},
                      !.rejected = fill.rejected]
  /\ fill' = IdleFill
  /\ UNCHANGED encoded

Next ==
  \/ \E o \in CreateTxObjs : Construct(o)
  \/ \E raw \in RawVariants(SampleRaw) : ConstructFromString(raw)
  \/ \E raw \in RawVariants(last.out) :
       last.op = "getRLPEncoding" /\ last.ok /\ Decode(raw)
  \/ \E g \in SetGasPriceIn : SetGasPrice(g)
  \/ \E v \in SetInputIn : SetInput(v)
  \/ \E sig \in SigSet : AppendSignatures(sig)
  \/ GetRLPEncoding
  \/ GetCommonRLPEncodingForSignature
  \/ FillTransaction
  \/ \E f \in FillFields, v \in RpcValues : RpcResolve(f, v)
  \/ \E f \in FillFields : RpcReject(f)
  \/ FillResume

Spec == Init /\ [][Next]_vars

----------------------------------------------------------------------------
(* Properties *)

RequiredFields == {"nonce", "gas", "gasPrice", "chainId"}

(* the signature list carried by a raw transaction *)
SigsOf(raw) ==
  LET l == RlpDecode(HexPrefix \o slice(raw, 4)).tree.list
  IN [j \in 1..Len(l[6].list) |-> SigDecode(l[6].list[j])]

(* decode was applied to the encoding of the signed transaction at hand *)
RoundTripCase ==
  /\ last.op = "decode"
  /\ IsDef(tx)
  /\ Val(tx).signatures # <<>>
  /\ getRLPEncoding(Val(tx)).ok
  /\ last.raw = getRLPEncoding(Val(tx)).out

(* C1 as stated: decode(tx.getRLPEncoding()) equals tx in nonce, gasPrice, gas, *)
(* from, input, chainId and in the signature list.                              *)
C1_RoundTripAllFields ==
  RoundTripCase =>
    /\ last.ok
    /\ \A f \in {"nonce", "gasPrice", "gas", "from", "input", "chainId", "signatures"} :
         Val(last.obj)[f] = Val(tx)[f]

(* C1 amended: decode(tx.getRLPEncoding()) equals tx in nonce, gasPrice, gas,   *)
(* from, input and in the signature list with its order; chainId is not part of *)
(* the encoding and is undefined in the decoded transaction.                    *)
C1_RoundTrip ==
  RoundTripCase =>
    /\ last.ok
    /\ \A f \in {"nonce", "gasPrice", "gas", "from", "input", "signatures"} :
         Val(last.obj)[f] = Val(tx)[f]
    /\ Val(last.obj).chainId = Undefined

C1_Witness ==
  /\ RoundTripCase
  /\ last.ok
  /\ Val(tx).signatures = <<Sig2, Sig1>>
  /\ Val(tx).nonce = Def(Hx(<<"0">>))
  /\ Val(tx).gas # Val(tx).gasPrice

TagMatches(raw) == startsWith(addHexPrefix(raw), TxTypeChainDataAnchoringTag)

FromStringCase == last.op \in {"decode", "constructor from string"}

(* C2 as stated: a string without the ChainDataAnchoring tag is rejected and no *)
(* object is produced, and whether a string is accepted depends on nothing but  *)
(* its leading tag bytes.                                                       *)
C2_TagAloneDecides ==
  FromStringCase =>
    /\ last.ok <=> TagMatches(last.raw)
    /\ ~TagMatches(last.raw) => last.obj = Undefined

(* C2 amended: a string whose leading bytes are not the ChainDataAnchoring tag  *)
(* is rejected with the prefix error whatever follows the tag, and no object is *)
(* produced; a matching tag is necessary for acceptance, not sufficient.        *)
C2_TagDispatch ==
  FromStringCase =>
    /\ ~TagMatches(last.raw) =>
         /\ ~last.ok
         /\ last.err = "prefix"
         /\ last.obj = Undefined
         /\ last.op = "constructor from string" => tx = Undefined
    /\ last.ok => TagMatches(last.raw)

C2_Witness ==
  /\ last.op = "decode"
  /\ ~last.ok
  /\ last.raw = WithTag(getRLPEncoding(Val(tx)).out, Hx(<<"0","8">>))
  /\ Val(tx).signatures # <<>>

(* C3: construction from an object that supplies both input and data fails, and *)
(* construction succeeds only when exactly one of the two is supplied.          *)
C3_ConstructionConflict ==
  last.op = "constructor" =>
    /\ IsDef(last.arg.input) /\ IsDef(last.arg.data) => ~last.ok /\ tx = Undefined
    /\ last.ok => IsDef(last.arg.input) # IsDef(last.arg.data)

(* C4: while one of nonce, gas, gasPrice, chainId is undefined, getRLPEncoding  *)
(* and getCommonRLPEncodingForSignature throw and return no encoding.           *)
C4_RequiredFieldsGateEncoding ==
  /\ last.op \in {"getRLPEncoding", "getCommonRLPEncodingForSignature"}
  /\ \E f \in RequiredFields : ~IsDef(Val(tx)[f])
  => ~last.ok /\ last.out = <<>>

C4_Witness ==
  /\ last.op = "getCommonRLPEncodingForSignature"
  /\ ~last.ok
  /\ ~IsDef(Val(tx).chainId)
  /\ \A f \in RequiredFields \ {"chainId"} : IsDef(Val(tx)[f])

(* C5: when fillTransaction completes, a field that was set at the call was not *)
(* asked of the RPC collaborator and holds the value it had at the call; a      *)
(* field that was unset holds the RPC result.                                   *)
C5_FillDoesNotOverwrite ==
  [][(fill.st = "pending" /\ last'.op = "fillTransaction" /\ last'.ok) =>
       \A f \in FillFields :
         IF IsDef(fill.before[f])
           THEN f \notin fill.queried /\ Val(tx')[f] = fill.before[f]
           ELSE f \in fill.queried /\ Val(tx')[f] = Def(numberToHex(Val(fill.slots[f])))]_vars

C5_Witness ==
  /\ last.op = "fillTransaction"
  /\ last.ok
  /\ last.queried = {"nonce"}
  /\ Val(tx).gasPrice = Def(Hx(<<"1","9">>))
  /\ Val(tx).chainId = Def(Hx(<<"1">>))

(* C6 as stated: getRLPEncoding fails when the signature list is empty. *)
C6_UnsignedNeverEncodes ==
  (last.op = "getRLPEncoding" /\ Val(tx).signatures = <<>>) => ~last.ok

(* C6 amended: getRLPEncoding does not look at the signature list; with nonce,  *)
(* gas, gasPrice, chainId and from set it succeeds on an unsigned transaction   *)
(* and the encoding carries the empty signature list.                           *)
C6_UnsignedEncodes ==
  /\ last.op = "getRLPEncoding"
  /\ Val(tx).signatures = <<>>
  /\ \A f \in RequiredFields \cup {"from"} : IsDef(Val(tx)[f])
  => last.ok /\ TagMatches(last.out) /\ SigsOf(last.out) = <<>>

C6_Witness ==
  /\ last.op = "getRLPEncoding"
  /\ last.ok
  /\ Val(tx).signatures = <<>>

(* C7: every getRLPEncoding result carries exactly the signature list the       *)
(* transaction holds at that call, in order, whatever was encoded before.       *)
C7_NotFrozen ==
  (last.op = "getRLPEncoding" /\ last.ok) => SigsOf(last.out) = Val(tx).signatures

C7_Witness ==
  /\ last.op = "getRLPEncoding"
  /\ last.ok
  /\ IsDef(encoded)
  /\ Val(encoded) = <<Sig1>>
  /\ Val(tx).signatures = <<Sig1, Sig2>>

FillSteps == {"rpc resolved", "rpc rejected", "fillTransaction"}

(* C8: no step of a fillTransaction call other than its successful completion   *)
(* changes the transaction, and a call with a rejected RPC ends rejected with   *)
(* chainId, gasPrice and nonce as they were.                                    *)
C8_FillAllOrNothing ==
  [][(fill.st = "pending" /\ last'.op \in FillSteps) =>
       /\ ~(last'.op = "fillTransaction" /\ last'.ok) => tx' = tx
       /\ (last'.op = "fillTransaction" /\ fill.rejected # {}) => ~last'.ok /\ tx' = tx]_vars

C8_Witness ==
  /\ last.op = "fillTransaction"
  /\ ~last.ok
  /\ last.resolved # {}
  /\ last.rejected # {}
  /\ \E f \in last.resolved : ~IsDef(Val(tx)[f])

(* C9: an input that is not a valid hex string is rejected by the assignment,   *)
(* in the constructor and in the setter, so the stored input is always valid.   *)
C9_InputValidAtAssignment ==
  /\ IsDef(tx) => isHex(Val(tx).input)
  /\ (last.op = "set input" /\ ~(IsDef(last.val) /\ isHex(Val(last.val)))) => ~last.ok
  /\ (last.op = "constructor" /\ last.ok) =>
       \E a \in {last.arg.input, last.arg.data} : IsDef(a) /\ isHex(Val(a)) /\ Val(tx).input = Val(a)

C9_Witness ==
  /\ last.op = "set input"
  /\ ~last.ok
  /\ last.val = Def(Hx(<<"g","1">>))
  /\ IsDef(tx)

CommonCase == last.op = "getCommonRLPEncodingForSignature" /\ last.ok

CanonicalPayload(t) ==
  <<Str(fromNat(Val(t.nonce))), Str(fromNat(Val(t.gasPrice))), Str(fromNat(Val(t.gas))),
    Str(Val(t.from)), Str(t.input)>>

(* C10 as stated: the encoded items are the payload fields only, with no type tag. *)
C10_PayloadOnly ==
  CommonCase => RlpDecode(last.out).tree = List(CanonicalPayload(Val(tx)))

(* C10 amended: the encoded list is the type tag followed by nonce, gasPrice,   *)
(* gas, from, input in that order; the variant itself contributes the tag.      *)
C10_TagThenPayload ==
  CommonCase =>
    RlpDecode(last.out).tree =
      List(<<Str(TxTypeChainDataAnchoringTag)>> \o CanonicalPayload(Val(tx)))

C10_Witness ==
  /\ CommonCase
  /\ Val(tx).nonce = Def(Hx(<<"a">>))
  /\ Val(tx).gasPrice = Def(Hx(<<"0">>))

====
